---- MODULE Spec2Model ----
(***************************************************************************)
(* State-machine model of the text-to-speech backend in src/server.ts     *)
(* (the session-auth variant): the nonce store, the session token         *)
(* service, the request router and its handlers.                          *)
(*                                                                         *)
(* Time is Date.now() in milliseconds.  Requests are handled one          *)
(* synchronous stretch at a time, as the event loop runs them: a handler  *)
(* runs atomically up to its first await that other code can observe.     *)
(***************************************************************************)
EXTENDS Integers, Sequences, FiniteSets, Bags, TLC

(***************************************************************************)
(* Bounds of the model.                                                    *)
(***************************************************************************)
\* number of clock advances in a behaviour
MaxTicks == 1
\* number of nonces generated in a behaviour
MaxMints == 2
\* number of session tokens issued in a behaviour without nonce enforcement
MaxIssued == 1
\* number of GET /api/session requests suspended at their await at once
MaxInFlight == 1

\* amounts by which the clock advances between two steps (ms): the nonce
\* lifetime, and half a second less than the token lifetime
Steps == {300000, 3599500}

\* Date.now() when the server starts: on a second, and half-way into one
StartTimes == {0, 500}

\* the values crypto.getRandomValues can produce, as hex strings
Nonces == {"n1", "n2"}

(***************************************************************************)
(* Program constants.                                                      *)
(***************************************************************************)
NONCE_TTL_MS == 5 * 60 * 1000
SWEEP_INTERVAL_MS == 60000
JWT_EXPIRY_S == 3600
SESSION_SECRET == "session-secret"
OTHER_SECRET == "other-secret"

VARIABLES
    REQUIRE_NONCE,      \* !!Deno.env.get("SESSION_SECRET")
    indexHtmlTemplate,  \* TRUE iff frontend/dist/index.html was read at startup
    isDevelopment,      \* config.isDevelopment of the variant that serves the frontend
    now,                \* Date.now()
    ticks,              \* clock advances so far
    nextSweep,          \* earliest time the interval timer fires next
    sessionNonces,      \* the Map nonce -> expiry, as a function on its keys
    pending,            \* bag of session requests suspended in createSessionToken
    last,               \* the exchange completed last: request, response, effects
    minted,             \* history: times each nonce value was generated
    recorded,           \* history: expiry recorded at the latest generation
    spent,              \* history: consumeNonce found the nonce since that generation
    granted,            \* history: tokens sent, per X-Session-Nonce value presented
    wallet              \* the token a client received last, with its time of issue

vars == <<REQUIRE_NONCE, indexHtmlTemplate, isDevelopment, now, ticks, nextSweep, sessionNonces,
          pending, last, minted, recorded, spent, granted, wallet>>

config == <<REQUIRE_NONCE, indexHtmlTemplate, isDevelopment>>
clock == <<now, ticks>>
history == <<minted, recorded, spent, granted, wallet>>

(***************************************************************************)
(* Values.                                                                 *)
(***************************************************************************)
NoHeader == "<absent>"
NoToken == [kind |-> "none", key |-> "-", iat |-> 0, exp |-> 0]
Malformed == [kind |-> "malformed", key |-> "-", iat |-> 0, exp |-> 0]

NoAuth == [prefix |-> "", token |-> NoToken]
NoBody == [json |-> "none", text |-> [t |-> "undefined", v |-> ""]]

SumOver(f) ==
    LET RECURSIVE Sum(_)
        Sum(S) == IF S = {} THEN 0
                  ELSE LET x == CHOOSE y \in S : TRUE IN f[x] + Sum(S \ {x})
    IN Sum(DOMAIN f)

(***************************************************************************)
(* Nonce store (src/server.ts 58-87).                                      *)
(***************************************************************************)
\* generateNonce: 16 random bytes as hex; any value may come out
generateNonce == Nonces

\* generateNonce: the store it leaves (it reads the random source only)
generateNonceStore(map, nonce, t) == map

\* sessionNonces.set(nonce, expiry)
MapSet(map, k, v) == [x \in DOMAIN map \cup {k} |-> IF x = k THEN v ELSE map[x]]

\* sessionNonces.delete(nonce)
MapDelete(map, k) == [x \in DOMAIN map \ {k} |-> map[x]]

\* consumeNonce returning true for an entry whatever its expiry
consumeNonceResult_IgnoreExpiry(map, nonce, t) ==
    nonce \in DOMAIN map /\ map[nonce] # 0

\* consumeNonce comparing with <= instead of <
consumeNonceResult_Inclusive(map, nonce, t) ==
    IF nonce \notin DOMAIN map \/ map[nonce] = 0 THEN FALSE
    ELSE t <= map[nonce]

\* consumeNonce with the test of absence inverted
consumeNonceResult_AcceptAbsent(map, nonce, t) ==
    IF nonce \notin DOMAIN map \/ map[nonce] = 0 THEN TRUE
    ELSE t < map[nonce]

\* consumeNonce: the value returned
consumeNonceResult(map, nonce, t) ==
    IF nonce \notin DOMAIN map \/ map[nonce] = 0 THEN FALSE
    ELSE t < map[nonce]

\* consumeNonce without its sessionNonces.delete(nonce)
consumeNonceStore_NoDelete(map, nonce) == map

\* consumeNonce emptying the store instead of deleting the one entry
consumeNonceStore_Clear(map, nonce) ==
    IF nonce \notin DOMAIN map \/ map[nonce] = 0 THEN map
    ELSE <<>>

\* consumeNonce: the store it leaves
consumeNonceStore(map, nonce) ==
    IF nonce \notin DOMAIN map \/ map[nonce] = 0 THEN map
    ELSE MapDelete(map, nonce)

\* the loop with "now > expiry"
SweepExpired_Strict(map, t) ==
    [x \in {k \in DOMAIN map : ~(t > map[k])} |-> map[x]]

\* the loop "if (now >= expiry) sessionNonces.delete(nonce)"
SweepExpired(map, t) ==
    [x \in {k \in DOMAIN map : ~(t >= map[k])} |-> map[x]]

(***************************************************************************)
(* Session token service (src/server.ts 101-118).  jose signs the claims  *)
(* {iat, exp} with the key; jwtVerify accepts a well-formed token whose    *)
(* signature matches the key and whose exp lies after the current second.  *)
(***************************************************************************)
\* Math.floor(Date.now() / 1000)
Epoch(t) == t \div 1000

SignJWT(key, t) ==
    [kind |-> "jwt", key |-> key, iat |-> Epoch(t), exp |-> Epoch(t) + JWT_EXPIRY_S]

createSessionToken(t) == SignJWT(SESSION_SECRET, t)

\* jwtVerify checking the signature only
verifySessionToken_NoExpiry(token, t) ==
    token.kind = "jwt" /\ token.key = SESSION_SECRET

verifySessionToken(token, t) ==
    /\ token.kind = "jwt"
    /\ token.key = SESSION_SECRET
    /\ ~(token.exp <= Epoch(t))

(***************************************************************************)
(* Strings (String.prototype.toLowerCase, includes, trim, startsWith).     *)
(***************************************************************************)
Upper == "ABCDEFGHIJKLMNOPQRSTUVWXYZ"
Lower == "abcdefghijklmnopqrstuvwxyz"

CharAt(s, i) == SubSeq(s, i, i)

\* the position of each upper-case letter in the alphabet
UpperPos ==
    [c \in {CharAt(Upper, i) : i \in 1..Len(Upper)} |->
        CHOOSE i \in 1..Len(Upper) : CharAt(Upper, i) = c]

LowerChar(c) == IF c \in DOMAIN UpperPos THEN CharAt(Lower, UpperPos[c]) ELSE c

RECURSIVE ToLowerCase(_)
ToLowerCase(s) ==
    IF Len(s) = 0 THEN ""
    ELSE LowerChar(CharAt(s, 1)) \o ToLowerCase(SubSeq(s, 2, Len(s)))

Includes(s, sub) ==
    \E i \in 1..(Len(s) - Len(sub) + 1) : SubSeq(s, i, i + Len(sub) - 1) = sub

StartsWith(s, prefix) ==
    Len(s) >= Len(prefix) /\ SubSeq(s, 1, Len(prefix)) = prefix

IsWhiteSpace(c) == c \in {" ", "\t", "\n", "\r"}

RECURSIVE TrimStart(_)
TrimStart(s) ==
    IF Len(s) > 0 /\ IsWhiteSpace(CharAt(s, 1)) THEN TrimStart(SubSeq(s, 2, Len(s)))
    ELSE s

RECURSIVE TrimEnd(_)
TrimEnd(s) ==
    IF Len(s) > 0 /\ IsWhiteSpace(CharAt(s, Len(s))) THEN TrimEnd(SubSeq(s, 1, Len(s) - 1))
    ELSE s

Trim(s) == TrimEnd(TrimStart(s))

(***************************************************************************)
(* Requests and responses.                                                 *)
(***************************************************************************)
Request(method, path, nonce, auth, body) ==
    [method |-> method, path |-> path, nonce |-> nonce, auth |-> auth, body |-> body]

NoRequest == Request("-", "-", NoHeader, NoAuth, NoBody)

\* a response: status, content type, Access-Control-Allow-Origin, and the body
\* (shape names the body's layout; the fields a layout lacks stay "-")
BlankResponse ==
    [status |-> 200, ctype |-> "-", cors |-> "absent", shape |-> "empty",
     etype |-> "-", code |-> "-", error |-> "-", message |-> "-", details |-> "-",
     token |-> NoToken, nonce |-> "-", audio |-> <<>>]

\* what handling a request did besides answering it
NoProvider == [kind |-> "-", message |-> "", chunks |-> <<>>]

\* what handling a request did besides answering it: the nonce generated, whether
\* the store held it with expiry now + NONCE_TTL_MS when generateNonce returned,
\* whether the nonce presented was fresh, whether the body was read, what the
\* provider did if it was called, when verifySessionToken ran and when the token
\* it was given had been issued
NoEffects ==
    [minted |-> "-", registered |-> FALSE, fresh |-> FALSE, bodyRead |-> FALSE,
     providerCalled |-> FALSE, provider |-> NoProvider, verifiedAt |-> -1,
     issuedAt |-> -1]

Exchange(req, resp, fx) == [req |-> req, resp |-> resp, fx |-> fx]

\* getCorsHeaders: the Access-Control-Allow-Origin it sets
getCorsHeaders == "*"

\* Response.json(body, {status, headers: getCorsHeaders()})
JsonResponse(status) ==
    [BlankResponse EXCEPT !.status = status, !.ctype = "application/json",
                          !.cors = getCorsHeaders]

\* {error: {type, code, message}} as the session and auth handlers build it
AuthErrorResponse(status, code, message) ==
    [JsonResponse(status) EXCEPT !.shape = "error", !.etype = "AuthenticationError",
                                 !.code = code, !.message = message]

\* {error: "...", message: "..."} as the metadata handler and the 404 build it
FlatErrorResponse(status, error, message) ==
    [JsonResponse(status) EXCEPT !.shape = "flat", !.error = error, !.message = message]

\* formatErrorResponse(error, statusCode = 500, code?)
formatErrorResponse(message, statusCode, code) ==
    [JsonResponse(statusCode) EXCEPT
        !.shape = "error",
        !.etype = IF statusCode = 400 THEN "ValidationError" ELSE "SynthesisError",
        !.code = IF code # "" THEN code
                 ELSE IF statusCode = 400 THEN "INVALID_INPUT" ELSE "SYNTHESIS_FAILED",
        !.message = IF message # "" THEN message
                    ELSE "An error occurred during synthesis",
        !.details = "Error: " \o message]

(***************************************************************************)
(* validateTtsInput (src/server.ts 189-197).  A JSON value is its type and *)
(* its content; the result is the error message, or "" for null.           *)
(***************************************************************************)
Undefined == [t |-> "undefined", v |-> ""]
Number5 == [t |-> "number", v |-> "5"]
String(s) == [t |-> "string", v |-> s]

\* !text
Falsy(val) == val.t = "undefined" \/ (val.t = "string" /\ Len(val.v) = 0)

\* validateTtsInput without its first test
validateTtsInput_EmptyOnly(text) ==
    IF text.t = "string" /\ Len(Trim(text.v)) = 0 THEN "text cannot be empty" ELSE ""

validateTtsInput(text) ==
    IF Falsy(text) \/ text.t # "string"
    THEN "text field is required and must be a string"
    ELSE IF Len(Trim(text.v)) = 0
    THEN "text cannot be empty"
    ELSE ""

(***************************************************************************)
(* checkAuth (src/server.ts 272-288).  The Authorization header is the     *)
(* text before the credential and the credential; slice(7) is the          *)
(* credential when the text before it is "Bearer ".                        *)
(***************************************************************************)
\* the null checkAuth returns when the request may proceed
NullResponse == [BlankResponse EXCEPT !.status = 0]

\* checkAuth without the call of verifySessionToken
checkAuth_SkipVerify(req, t) ==
    IF ~StartsWith(req.auth.prefix, "Bearer ")
    THEN AuthErrorResponse(401, "MISSING_TOKEN",
                           "Authorization header with Bearer token is required")
    ELSE NullResponse

checkAuth(req, t) ==
    IF ~StartsWith(req.auth.prefix, "Bearer ")
    THEN AuthErrorResponse(401, "MISSING_TOKEN",
                           "Authorization header with Bearer token is required")
    ELSE IF ~verifySessionToken(req.auth.token, t)
    THEN AuthErrorResponse(401, "INVALID_TOKEN", "Invalid or expired session token")
    ELSE NullResponse

(***************************************************************************)
(* handleSynthesis (src/server.ts 298-368).  The provider's behaviour is   *)
(* an input: it throws an error, returns no stream, or streams chunks.     *)
(***************************************************************************)
\* audioData.set(chunk, offset)
SetAt(data, chunk, offset) ==
    [i \in 1..Len(data) |->
        IF i > offset /\ i <= offset + Len(chunk) THEN chunk[i - offset] ELSE data[i]]

RECURSIVE TotalLength(_)
TotalLength(chunks) ==
    IF chunks = <<>> THEN 0 ELSE Len(Head(chunks)) + TotalLength(Tail(chunks))

RECURSIVE CopyChunks(_, _, _)
CopyChunks(data, chunks, offset) ==
    IF chunks = <<>> THEN data
    ELSE CopyChunks(SetAt(data, Head(chunks), offset), Tail(chunks),
                    offset + Len(Head(chunks)))

\* the copy loop without "offset += chunk.length"
Concatenate_NoOffset(chunks) ==
    LET RECURSIVE CopyAtZero(_, _)
        CopyAtZero(data, rest) ==
            IF rest = <<>> THEN data
            ELSE CopyAtZero(SetAt(data, Head(rest), 0), Tail(rest))
    IN CopyAtZero([i \in 1..TotalLength(chunks) |-> 0], chunks)

\* the chunks pushed by the read loop, copied into one Uint8Array
Concatenate(chunks) ==
    CopyChunks([i \in 1..TotalLength(chunks) |-> 0], chunks, 0)

\* the catch block: the substring heuristic on the lower-cased message
IsLengthError(message) ==
    LET errorMsg == ToLowerCase(message)
    IN \/ Includes(errorMsg, "too long")
       \/ Includes(errorMsg, "length")
       \/ Includes(errorMsg, "limit")
       \/ Includes(errorMsg, "exceed")

\* the messages of the errors the try block can throw
ProviderErrors == {"Text too long", "Input EXCEEDS the character Limit",
                   "Invalid content-length", "Unauthorized", ""}
JsonSyntaxError == "Unexpected end of JSON input"
NullBodyError == "Cannot read properties of null (reading 'text')"
NoStreamError == "No audio stream returned from Deepgram"
ErrorMessages == ProviderErrors \cup {JsonSyntaxError, NullBodyError, NoStreamError}

\* IsLengthError on each of them, evaluated once
LengthErrors == {m \in ErrorMessages : IsLengthError(m)}

\* the catch block reclassifying every error
SynthesisCatch_AlwaysTooLong(message) ==
    formatErrorResponse(message, 400, "TEXT_TOO_LONG")

SynthesisCatch(message) ==
    IF message \in LengthErrors
    THEN formatErrorResponse(message, 400, "TEXT_TOO_LONG")
    ELSE formatErrorResponse(message, 500, "")

AudioResponse(audioData) ==
    [BlankResponse EXCEPT !.ctype = "application/octet-stream", !.cors = getCorsHeaders,
                          !.shape = "audio", !.audio = audioData]

\* the result: the response, and whether the provider was called
handleSynthesis(req, provider) ==
    IF req.body.json \in {"none", "invalid"}
    THEN [resp |-> SynthesisCatch(JsonSyntaxError), called |-> FALSE]
    ELSE IF req.body.json = "null"
    THEN [resp |-> SynthesisCatch(NullBodyError), called |-> FALSE]
    ELSE IF validateTtsInput(req.body.text) # ""
    THEN [resp |-> formatErrorResponse(validateTtsInput(req.body.text), 400,
                                       "INVALID_INPUT"),
          called |-> FALSE]
    ELSE IF provider.kind = "error"
    THEN [resp |-> SynthesisCatch(provider.message), called |-> TRUE]
    ELSE IF provider.kind = "nostream"
    THEN [resp |-> SynthesisCatch(NoStreamError), called |-> TRUE]
    ELSE [resp |-> AudioResponse(Concatenate(provider.chunks)), called |-> TRUE]

(***************************************************************************)
(* handleMetadata, handlePreflight and the router (src/server.ts 374-454). *)
(***************************************************************************)
\* toml: what reading and parsing deepgram.toml gives
handleMetadata(toml) ==
    IF toml = "unreadable"
    THEN FlatErrorResponse(500, "INTERNAL_SERVER_ERROR",
                           "Failed to read metadata from deepgram.toml")
    ELSE IF toml = "nometa"
    THEN FlatErrorResponse(500, "INTERNAL_SERVER_ERROR",
                           "Missing [meta] section in deepgram.toml")
    ELSE [JsonResponse(200) EXCEPT !.shape = "meta"]

handlePreflight ==
    [BlankResponse EXCEPT !.status = 204, !.cors = getCorsHeaders]

NotFoundResponse == FlatErrorResponse(404, "Not Found", "Endpoint not found")

\* handleRequest: the handler a request is dispatched to
Route(req) ==
    IF req.method = "OPTIONS" THEN "preflight"
    ELSE IF req.path = "/" \/ req.path = "/index.html" THEN "index"
    ELSE IF req.method = "GET" /\ req.path = "/api/session" THEN "session"
    ELSE IF req.method = "POST" /\ req.path = "/api/text-to-speech" THEN "synthesis"
    ELSE IF req.method = "GET" /\ req.path = "/api/metadata" THEN "metadata"
    ELSE "notfound"

(***************************************************************************)
(* The variant that serves the frontend itself (src/unnamed/part_000       *)
(* 1-355): POST /tts/synthesize, GET /api/metadata, and every other        *)
(* request handed to the frontend.  It has no session tokens and sets no   *)
(* CORS headers.                                                           *)
(***************************************************************************)
\* Response.json(errorBody, {status: statusCode})
formatErrorResponseFirst(message, statusCode, code) ==
    [formatErrorResponse(message, statusCode, code) EXCEPT !.cors = "absent"]

\* the result: the response, and whether the provider was called
handleSynthesisFirst(req, provider) ==
    IF req.body.json \in {"none", "invalid"}
    THEN [resp |-> formatErrorResponseFirst(JsonSyntaxError, 500, ""), called |-> FALSE]
    ELSE IF req.body.json = "null"
    THEN [resp |-> formatErrorResponseFirst(NullBodyError, 500, ""), called |-> FALSE]
    ELSE IF validateTtsInput(req.body.text) # ""
    THEN [resp |-> formatErrorResponseFirst(validateTtsInput(req.body.text), 400,
                                            "INVALID_INPUT"),
          called |-> FALSE]
    ELSE IF provider.kind = "error"
    THEN [resp |-> formatErrorResponseFirst(provider.message, 500, ""), called |-> TRUE]
    ELSE IF provider.kind = "nostream"
    THEN [resp |-> formatErrorResponseFirst(NoStreamError, 500, ""), called |-> TRUE]
    ELSE [resp |-> [AudioResponse(Concatenate(provider.chunks)) EXCEPT !.cors = "absent"],
          called |-> TRUE]

handleMetadataFirst(toml) == [handleMetadata(toml) EXCEPT !.cors = "absent"]

\* serveStaticFile: files says what frontend/dist holds for the path, "file" the
\* file asked for, "index" only index.html, "none" neither
serveStaticFile(pathname, files) ==
    IF files = "file"
    THEN [BlankResponse EXCEPT !.ctype = "by extension", !.shape = "file"]
    ELSE IF files = "index"
    THEN [BlankResponse EXCEPT !.ctype = "text/html", !.shape = "html"]
    ELSE [BlankResponse EXCEPT !.status = 404, !.ctype = "text/plain", !.shape = "text",
                               !.message = "Not Found"]

\* handleFrontend: vite is the status the Vite dev server answers with, or 0
\* when fetch fails; the response of Vite is passed on as it is
handleFrontend(req, development, vite, files) ==
    IF development
    THEN IF vite # 0
         THEN [BlankResponse EXCEPT !.status = vite, !.ctype = "upstream",
                                    !.cors = "upstream", !.shape = "proxied"]
         ELSE [BlankResponse EXCEPT !.status = 502, !.ctype = "text/plain",
                                    !.shape = "text",
                                    !.message = "Vite dev server not running"]
    ELSE serveStaticFile(req.path, files)

\* handleRequest of this variant: the handler a request is dispatched to
RouteFirst(req) ==
    IF req.method = "POST" /\ req.path = "/tts/synthesize" THEN "synthesis"
    ELSE IF req.method = "GET" /\ req.path = "/api/metadata" THEN "metadata"
    ELSE "frontend"

(***************************************************************************)
(* The requests clients send and the behaviours of the collaborators.      *)
(***************************************************************************)
Methods == {"GET", "POST", "OPTIONS"}
Paths == {"/", "/index.html", "/api/session", "/api/text-to-speech", "/api/metadata",
          "/tts/synthesize"}
Texts == {"", " ", " \t\n", "hello", " hi "}
Bodies ==
    {[json |-> "invalid", text |-> Undefined], [json |-> "null", text |-> Undefined]}
    \cup {[json |-> "object", text |-> v] :
            v \in {Undefined, Number5} \cup {String(s) : s \in Texts}}

\* the tokens a client can hold: those sent to it, a token signed with another
\* secret, and a string that is no JWT
KnownTokens == {wallet.token} \ {NoToken}
Credentials == KnownTokens \cup {Malformed, SignJWT(OTHER_SECRET, now)}
Authorizations ==
    {NoAuth, [prefix |-> "Basic ", token |-> Malformed]}
    \cup {[prefix |-> "Bearer ", token |-> c] : c \in Credentials}
    \cup {[prefix |-> "bearer ", token |-> c] : c \in KnownTokens}

\* page loads and session requests, with every value of X-Session-Nonce
SessionTraffic ==
    {Request("GET", p, NoHeader, NoAuth, NoBody) : p \in {"/", "/index.html"}}
    \cup {Request("GET", "/api/session", n, NoAuth, NoBody) :
            n \in Nonces \cup {NoHeader}}

\* every method on every path, and a nonce presented with every method
RouterTraffic ==
    {Request(m, p, NoHeader, NoAuth, NoBody) : m \in Methods, p \in Paths}
    \cup {Request(m, "/api/session", n, NoAuth, NoBody) :
            m \in Methods, n \in Nonces \cup {""}}

\* session requests and synthesis requests, with every Authorization and body
ApiTraffic ==
    {Request("GET", "/api/session", NoHeader, NoAuth, NoBody)}
    \cup {Request("POST", "/api/text-to-speech", NoHeader, a, b) :
            a \in Authorizations, b \in Bodies}

\* a page load, session requests with every nonce, and synthesis requests with
\* every credential
FlowTraffic ==
    {Request("GET", "/", NoHeader, NoAuth, NoBody)}
    \cup {Request("GET", "/api/session", n, NoAuth, NoBody) : n \in Nonces \cup {NoHeader}}
    \cup {Request("POST", "/api/text-to-speech", NoHeader, a,
                  [json |-> "object", text |-> String("hello")]) :
            a \in {NoAuth} \cup {[prefix |-> "Bearer ", token |-> c] : c \in Credentials}}

Requests == SessionTraffic \cup RouterTraffic \cup ApiTraffic \cup FlowTraffic

\* every method on every path, and POST /tts/synthesize with every body
FirstTraffic ==
    RouterTraffic
    \cup {Request("POST", "/tts/synthesize", NoHeader, NoAuth, b) : b \in Bodies}

Chunkings == {<<>>, << <<1, 2>>, <<>>, <<3>> >>, << <<4>>, <<5, 6>> >>}
Providers ==
    {[kind |-> "error", message |-> m, chunks |-> <<>>] : m \in ProviderErrors}
    \cup {[kind |-> "nostream", message |-> "", chunks |-> <<>>]}
    \cup {[kind |-> "stream", message |-> "", chunks |-> c] : c \in Chunkings}
TomlFiles == {"ok", "nometa", "unreadable"}
ViteAnswers == {0, 200, 204, 404}
StaticFiles == {"file", "index", "none"}

(***************************************************************************)
(* Initial state: the module has been evaluated, the store is empty, the   *)
(* sweep timer is armed.                                                   *)
(***************************************************************************)
Init ==
    /\ REQUIRE_NONCE \in BOOLEAN
    /\ indexHtmlTemplate \in BOOLEAN
    /\ isDevelopment = FALSE
    /\ now \in StartTimes
    /\ ticks = 0
    /\ nextSweep = now + SWEEP_INTERVAL_MS
    /\ sessionNonces = <<>>
    /\ pending = EmptyBag
    /\ last = Exchange(NoRequest, BlankResponse, NoEffects)
    /\ minted = [n \in Nonces |-> 0]
    /\ recorded = [n \in Nonces |-> 0]
    /\ spent = [n \in Nonces |-> FALSE]
    /\ granted = [h \in Nonces \cup {"", NoHeader} |-> 0]
    /\ wallet = [token |-> NoToken, at |-> 0]

(***************************************************************************)
(* Actions.                                                                *)
(***************************************************************************)
\* time passes
Tick(d) ==
    /\ ticks < MaxTicks
    /\ now' = now + d
    /\ ticks' = ticks + 1
    /\ UNCHANGED <<config, nextSweep, sessionNonces, pending, last, history>>

\* the setInterval callback (src/server.ts 82-87)
Sweep ==
    /\ now >= nextSweep
    /\ sessionNonces' = SweepExpired(sessionNonces, now)
    /\ nextSweep' = now + SWEEP_INTERVAL_MS
    /\ UNCHANGED <<config, clock, pending, last, history>>

\* OPTIONS on any path
Preflight(req) ==
    /\ Route(req) = "preflight"
    /\ last' = Exchange(req, handlePreflight, NoEffects)
    /\ UNCHANGED <<config, clock, nextSweep, sessionNonces, pending, history>>

\* handleServeIndex (src/server.ts 231-249)
ServeIndexNotBuilt(req) ==
    /\ Route(req) = "index"
    /\ ~indexHtmlTemplate
    /\ last' = Exchange(req,
                        [BlankResponse EXCEPT !.status = 404, !.ctype = "text/plain",
                                              !.shape = "text",
                                              !.message = "Frontend not built. Run make build first."],
                        NoEffects)
    /\ UNCHANGED <<config, clock, nextSweep, sessionNonces, pending, history>>

ServeIndex(req, nonce) ==
    /\ Route(req) = "index"
    /\ indexHtmlTemplate
    /\ SumOver(minted) < MaxMints
    /\ LET returned == generateNonceStore(SweepExpired(sessionNonces, now), nonce, now)
       IN /\ sessionNonces' = MapSet(returned, nonce, now + NONCE_TTL_MS)
          /\ last' = Exchange(req,
                              [BlankResponse EXCEPT !.ctype = "text/html",
                                                    !.cors = getCorsHeaders,
                                                    !.shape = "html", !.nonce = nonce],
                              [NoEffects EXCEPT
                                  !.minted = nonce,
                                  !.registered =
                                      /\ nonce \in DOMAIN returned
                                      /\ returned[nonce] = now + NONCE_TTL_MS])
    /\ minted' = [minted EXCEPT ![nonce] = @ + 1]
    /\ recorded' = [recorded EXCEPT ![nonce] = now + NONCE_TTL_MS]
    /\ spent' = [spent EXCEPT ![nonce] = FALSE]
    /\ UNCHANGED <<config, clock, nextSweep, pending, granted, wallet>>

\* history: the nonce was generated, not found by consumeNonce since, and its
\* recorded expiry lies ahead
Fresh(nonce) ==
    /\ nonce \in Nonces
    /\ minted[nonce] > 0
    /\ ~spent[nonce]
    /\ now < recorded[nonce]

\* handleGetSession up to its await (src/server.ts 255-265): the nonce check
\* and the synchronous part of createSessionToken
GetSessionRejected(req) ==
    /\ Route(req) = "session"
    /\ REQUIRE_NONCE
    /\ req.nonce \in {NoHeader, ""} \/ ~consumeNonceResult(sessionNonces, req.nonce, now)
    /\ sessionNonces' = IF req.nonce \in {NoHeader, ""} THEN sessionNonces
                        ELSE consumeNonceStore(sessionNonces, req.nonce)
    /\ spent' = IF req.nonce \in DOMAIN sessionNonces
                THEN [spent EXCEPT ![req.nonce] = TRUE] ELSE spent
    /\ last' = Exchange(req,
                        AuthErrorResponse(403, "INVALID_NONCE",
                            "Valid session nonce required. Please refresh the page."),
                        [NoEffects EXCEPT !.fresh = Fresh(req.nonce)])
    /\ UNCHANGED <<config, clock, nextSweep, pending, minted, recorded, granted, wallet>>

GetSessionAccepted(req) ==
    /\ Route(req) = "session"
    /\ REQUIRE_NONCE =>
          /\ req.nonce \notin {NoHeader, ""}
          /\ consumeNonceResult(sessionNonces, req.nonce, now)
    /\ BagCardinality(pending) < MaxInFlight
    /\ REQUIRE_NONCE \/ SumOver(granted) + BagCardinality(pending) < MaxIssued
    /\ sessionNonces' = IF REQUIRE_NONCE THEN consumeNonceStore(sessionNonces, req.nonce)
                        ELSE sessionNonces
    /\ spent' = IF REQUIRE_NONCE /\ req.nonce \in DOMAIN sessionNonces
                THEN [spent EXCEPT ![req.nonce] = TRUE] ELSE spent
    /\ pending' = pending (+) SetToBag({[req |-> req, token |-> createSessionToken(now),
                                         at |-> now, fresh |-> Fresh(req.nonce)]})
    /\ UNCHANGED <<config, clock, nextSweep, last, minted, recorded, granted, wallet>>

\* the signature is ready: handleGetSession resumes and answers (266)
GetSessionSigned(p) ==
    /\ BagIn(p, pending)
    /\ pending' = pending (-) SetToBag({p})
    /\ granted' = [granted EXCEPT ![p.req.nonce] = @ + 1]
    /\ wallet' = [token |-> p.token, at |-> p.at]
    /\ last' = Exchange(p.req,
                        [JsonResponse(200) EXCEPT !.shape = "token", !.token = p.token],
                        [NoEffects EXCEPT !.fresh = p.fresh])
    /\ UNCHANGED <<config, clock, nextSweep, sessionNonces, minted, recorded, spent>>

\* history: when verifySessionToken ran for the request, if it did, and when the
\* token in its Authorization header was sent to the client, if it was
VerifiedAt(req) == IF StartsWith(req.auth.prefix, "Bearer ") THEN now ELSE -1
IssuedAt(req) ==
    IF req.auth.token # NoToken /\ req.auth.token = wallet.token THEN wallet.at ELSE -1

\* POST /api/text-to-speech: checkAuth, then handleSynthesis (437-442)
SynthesisDenied(req) ==
    /\ Route(req) = "synthesis"
    /\ checkAuth(req, now) # NullResponse
    /\ last' = Exchange(req, checkAuth(req, now),
                        [NoEffects EXCEPT !.verifiedAt = VerifiedAt(req),
                                          !.issuedAt = IssuedAt(req)])
    /\ UNCHANGED <<config, clock, nextSweep, sessionNonces, pending, history>>

Synthesis(req) ==
    /\ Route(req) = "synthesis"
    /\ checkAuth(req, now) = NullResponse
    /\ \E provider \in Providers :
          LET r == handleSynthesis(req, provider)
          IN last' = Exchange(req, r.resp,
                              [NoEffects EXCEPT !.bodyRead = TRUE,
                                                !.providerCalled = r.called,
                                                !.provider = IF r.called THEN provider
                                                             ELSE NoProvider,
                                                !.verifiedAt = VerifiedAt(req),
                                                !.issuedAt = IssuedAt(req)])
    /\ UNCHANGED <<config, clock, nextSweep, sessionNonces, pending, history>>

\* GET /api/metadata
Metadata(req, toml) ==
    /\ Route(req) = "metadata"
    /\ last' = Exchange(req, handleMetadata(toml), NoEffects)
    /\ UNCHANGED <<config, clock, nextSweep, sessionNonces, pending, history>>

\* every other request
NotFound(req) ==
    /\ Route(req) = "notfound"
    /\ last' = Exchange(req, NotFoundResponse, NoEffects)
    /\ UNCHANGED <<config, clock, nextSweep, sessionNonces, pending, history>>

Next ==
    \/ \E d \in Steps : Tick(d)
    \/ Sweep
    \/ \E req \in Requests : Preflight(req)
    \/ \E req \in Requests : ServeIndexNotBuilt(req)
    \/ \E req \in Requests, nonce \in generateNonce : ServeIndex(req, nonce)
    \/ \E req \in Requests : GetSessionRejected(req)
    \/ \E req \in Requests : GetSessionAccepted(req)
    \/ \E p \in BagToSet(pending) : GetSessionSigned(p)
    \/ \E req \in Requests : SynthesisDenied(req)
    \/ \E req \in Requests : Synthesis(req)
    \/ \E req \in Requests, toml \in TomlFiles : Metadata(req, toml)
    \/ \E req \in Requests : NotFound(req)

Spec == Init /\ [][Next]_vars

(***************************************************************************)
(* The same machine under one kind of traffic at a time.  The handlers of  *)
(* /api/text-to-speech, /api/metadata, OPTIONS and the 404 neither read    *)
(* nor write the nonce store, and no handler reads what another request    *)
(* was answered, so each restriction keeps every behaviour of the state it *)
(* is about.                                                               *)
(***************************************************************************)
\* page loads, session requests, the clock and the sweep timer
NextSession ==
    \/ \E d \in Steps : Tick(d)
    \/ Sweep
    \/ \E req \in SessionTraffic : ServeIndexNotBuilt(req)
    \/ \E req \in SessionTraffic, nonce \in generateNonce : ServeIndex(req, nonce)
    \/ \E req \in SessionTraffic : GetSessionRejected(req)
    \/ \E req \in SessionTraffic : GetSessionAccepted(req)
    \/ \E p \in BagToSet(pending) : GetSessionSigned(p)

SpecSession == Init /\ [][NextSession]_vars

\* the same, with time passing and the interval timer firing when it is due
SpecSessionFair ==
    SpecSession /\ WF_vars(Sweep) /\ WF_vars(\E d \in Steps : Tick(d))

\* every method on every path, at one instant
NextRouter ==
    \/ \E req \in RouterTraffic : Preflight(req)
    \/ \E req \in RouterTraffic : ServeIndexNotBuilt(req)
    \/ \E req \in RouterTraffic, nonce \in generateNonce : ServeIndex(req, nonce)
    \/ \E req \in RouterTraffic : GetSessionRejected(req)
    \/ \E req \in RouterTraffic : GetSessionAccepted(req)
    \/ \E p \in BagToSet(pending) : GetSessionSigned(p)
    \/ \E req \in RouterTraffic : SynthesisDenied(req)
    \/ \E req \in RouterTraffic, toml \in TomlFiles : Metadata(req, toml)
    \/ \E req \in RouterTraffic : NotFound(req)

SpecRouter == Init /\ [][NextRouter]_vars

\* session tokens and synthesis requests, and the clock
NextApi ==
    \/ \E d \in Steps : Tick(d)
    \/ \E req \in ApiTraffic : GetSessionRejected(req)
    \/ \E req \in ApiTraffic : GetSessionAccepted(req)
    \/ \E p \in BagToSet(pending) : GetSessionSigned(p)
    \/ \E req \in ApiTraffic : SynthesisDenied(req)
    \/ \E req \in ApiTraffic : Synthesis(req)

SpecApi == Init /\ [][NextApi]_vars

\* from the page load to the synthesis: renders, session requests, synthesis
\* requests, the clock and the sweep timer
NextFlow ==
    \/ \E d \in Steps : Tick(d)
    \/ Sweep
    \/ \E req \in FlowTraffic : ServeIndexNotBuilt(req)
    \/ \E req \in FlowTraffic, nonce \in generateNonce : ServeIndex(req, nonce)
    \/ \E req \in FlowTraffic : GetSessionRejected(req)
    \/ \E req \in FlowTraffic : GetSessionAccepted(req)
    \/ \E p \in BagToSet(pending) : GetSessionSigned(p)
    \/ \E req \in FlowTraffic : SynthesisDenied(req)
    \/ \E req \in FlowTraffic : Synthesis(req)

SpecFlow == Init /\ [][NextFlow]_vars

(***************************************************************************)
(* The variant that serves the frontend itself: it starts in development   *)
(* or in production mode, and keeps no nonces and no tokens.               *)
(***************************************************************************)
InitFirst ==
    /\ REQUIRE_NONCE = FALSE
    /\ indexHtmlTemplate = FALSE
    /\ isDevelopment \in BOOLEAN
    /\ now \in StartTimes
    /\ ticks = 0
    /\ nextSweep = now + SWEEP_INTERVAL_MS
    /\ sessionNonces = <<>>
    /\ pending = EmptyBag
    /\ last = Exchange(NoRequest, BlankResponse, NoEffects)
    /\ minted = [n \in Nonces |-> 0]
    /\ recorded = [n \in Nonces |-> 0]
    /\ spent = [n \in Nonces |-> FALSE]
    /\ granted = [h \in Nonces \cup {"", NoHeader} |-> 0]
    /\ wallet = [token |-> NoToken, at |-> 0]

SynthesisFirst(req) ==
    /\ RouteFirst(req) = "synthesis"
    /\ \E provider \in Providers :
          LET r == handleSynthesisFirst(req, provider)
          IN last' = Exchange(req, r.resp,
                              [NoEffects EXCEPT !.bodyRead = TRUE,
                                                !.providerCalled = r.called,
                                                !.provider = IF r.called THEN provider
                                                             ELSE NoProvider])
    /\ UNCHANGED <<config, clock, nextSweep, sessionNonces, pending, history>>

MetadataFirst(req, toml) ==
    /\ RouteFirst(req) = "metadata"
    /\ last' = Exchange(req, handleMetadataFirst(toml), NoEffects)
    /\ UNCHANGED <<config, clock, nextSweep, sessionNonces, pending, history>>

Frontend(req, vite, files) ==
    /\ RouteFirst(req) = "frontend"
    /\ last' = Exchange(req, handleFrontend(req, isDevelopment, vite, files), NoEffects)
    /\ UNCHANGED <<config, clock, nextSweep, sessionNonces, pending, history>>

NextFirst ==
    \/ \E req \in FirstTraffic : SynthesisFirst(req)
    \/ \E req \in FirstTraffic, toml \in TomlFiles : MetadataFirst(req, toml)
    \/ \E req \in FirstTraffic, vite \in ViteAnswers, files \in StaticFiles :
          Frontend(req, vite, files)

SpecFirst == InitFirst /\ [][NextFirst]_vars

(***************************************************************************)
(* Properties of the nonce store and of session issuance (SpecSession).    *)
(***************************************************************************)
\* session requests presenting nonce, suspended after consumeNonce accepted it
PendingFor(nonce) ==
    SumOver([p \in {q \in BagToSet(pending) : q.req.nonce = nonce} |->
                CopiesIn(p, pending)])

\* times consumeNonce(nonce) has returned true
Validated(nonce) == granted[nonce] + PendingFor(nonce)

\* the nonce was consumed successfully, or the clock has reached its recorded expiry
Dead(nonce) ==
    \/ Validated(nonce) >= 1
    \/ recorded[nonce] # 0 /\ now >= recorded[nonce]

\* C1: under nonce enforcement, once consumeNonce(n) has returned true or the
\* clock has reached n's recorded expiry, and n is generated once only, no later
\* step (request, page render, sweep, clock advance) makes consumeNonce(n) return
\* true again.
C1_NoRevalidation ==
    [][REQUIRE_NONCE =>
         \A n \in Nonces :
            (Dead(n) /\ minted[n] <= 1 /\ minted'[n] <= 1)
               => Validated(n)' = Validated(n)]_vars

\* a nonce generated once, validated once, and then presented again and refused
C1_Witness ==
    /\ REQUIRE_NONCE
    /\ last.req.nonce \in Nonces
    /\ minted[last.req.nonce] = 1
    /\ granted[last.req.nonce] = 1
    /\ last.resp.status = 403

\* C2: under nonce enforcement, the session requests that present one nonce and
\* get past consumeNonce, suspended or answered with a token, never outnumber the
\* times that nonce was generated: of the requests presenting a nonce generated
\* once, at most one is answered with a token.
C2_OneTokenPerNonce ==
    REQUIRE_NONCE => \A n \in Nonces : Validated(n) <= minted[n]

\* a request presenting the nonce is refused while another presenting the same
\* nonce is suspended at its await
C2_Witness ==
    /\ REQUIRE_NONCE
    /\ last.req.nonce \in Nonces
    /\ minted[last.req.nonce] = 1
    /\ PendingFor(last.req.nonce) = 1
    /\ last.resp.status = 403
    /\ last.resp.code = "INVALID_NONCE"

InvalidNonceResponse ==
    [BlankResponse EXCEPT !.status = 403, !.ctype = "application/json", !.cors = "*",
                          !.shape = "error", !.etype = "AuthenticationError",
                          !.code = "INVALID_NONCE",
                          !.message = "Valid session nonce required. Please refresh the page."]

\* C3: with a persistent secret, a session request is answered with a token
\* exactly when the nonce it presents was generated, not taken by consumeNonce
\* since, and not expired, and otherwise with 403 AuthenticationError /
\* INVALID_NONCE and no token; without a persistent secret every session request
\* is answered with a token.
C3_SessionGate ==
    /\ \A p \in BagToSet(pending) : REQUIRE_NONCE => p.fresh
    /\ Route(last.req) = "session" =>
          /\ last.resp.shape = "token" \/ last.resp = InvalidNonceResponse
          /\ last.resp.shape = "token" =>
                last.resp.status = 200 /\ last.resp.token.kind = "jwt"
          /\ REQUIRE_NONCE => (last.resp.shape = "token" <=> last.fx.fresh)
          /\ ~REQUIRE_NONCE => last.resp.shape = "token"

\* a token sent for a fresh nonce under enforcement
C3_Witness ==
    /\ REQUIRE_NONCE
    /\ Route(last.req) = "session"
    /\ last.req.nonce \in Nonces
    /\ last.resp.shape = "token"

\* a step in which handleGetSession calls consumeNonce(req.nonce)
ConsumeStep(req) ==
    /\ REQUIRE_NONCE
    /\ req.nonce \in Nonces
    /\ GetSessionRejected(req) \/ GetSessionAccepted(req)

\* C15: consumeNonce(n) for n absent from the store leaves the store as it is
\* and returns false (the request is refused); for n present it removes the
\* entry of n, expired or not, keeps every other entry with its expiry, and
\* returns true (the request goes on to createSessionToken) exactly when the
\* time is strictly before the expiry recorded for n.
C15_ConsumeFrame ==
    [][\A req \in SessionTraffic :
          ConsumeStep(req) =>
             IF req.nonce \notin DOMAIN sessionNonces
             THEN sessionNonces' = sessionNonces /\ pending' = pending
             ELSE /\ DOMAIN sessionNonces' = DOMAIN sessionNonces \ {req.nonce}
                  /\ \A k \in DOMAIN sessionNonces' : sessionNonces'[k] = sessionNonces[k]
                  /\ pending' # pending <=> now < sessionNonces[req.nonce]]_vars

\* a refused request has removed the expired entry of its nonce, and the entry
\* of another nonce is still in the store
C15_Witness ==
    /\ REQUIRE_NONCE
    /\ last.resp.code = "INVALID_NONCE"
    /\ last.req.nonce \in Nonces
    /\ spent[last.req.nonce]
    /\ Validated(last.req.nonce) = 0
    /\ now >= recorded[last.req.nonce]
    /\ last.req.nonce \notin DOMAIN sessionNonces
    /\ DOMAIN sessionNonces # {}

\* the store holds an entry for the nonce whose expiry has passed
InStoreExpired(nonce) ==
    nonce \in DOMAIN sessionNonces /\ sessionNonces[nonce] <= now

\* the entries whose expiry lies after the current time
Unexpired == {k \in DOMAIN sessionNonces : sessionNonces[k] > now}

\* C16: a firing of the timer leaves in the store exactly the entries whose
\* expiry lies after the current time, and an index render keeps of the
\* entries of other nonces exactly those; when the timer fires whenever it is
\* due, an expired entry does not stay in the store, and while the clock
\* advances an entry expires or leaves the store.
C16_SweepRemovesExpired ==
    /\ [][/\ Sweep =>
               /\ DOMAIN sessionNonces' = Unexpired
               /\ \A k \in Unexpired : sessionNonces'[k] = sessionNonces[k]
          /\ \A req \in SessionTraffic, nonce \in Nonces :
                ServeIndex(req, nonce) =>
                   /\ DOMAIN sessionNonces' \ {nonce} = Unexpired \ {nonce}
                   /\ \A k \in Unexpired \ {nonce} :
                         sessionNonces'[k] = sessionNonces[k]]_vars
    /\ \A n \in Nonces : InStoreExpired(n) ~> ~InStoreExpired(n)
    /\ \A n \in Nonces :
          (n \in DOMAIN sessionNonces /\ ticks < MaxTicks)
             ~> (InStoreExpired(n) \/ n \notin DOMAIN sessionNonces)

\* the timer has fired and removed the entry of a nonce no request presented
C16_Witness ==
    /\ SumOver(minted) = 1
    /\ nextSweep = now + SWEEP_INTERVAL_MS
    /\ \E n \in Nonces :
          /\ minted[n] = 1
          /\ ~spent[n]
          /\ n \notin DOMAIN sessionNonces

\* C17 as stated: every nonce generateNonce returns is, when it is returned, in
\* the store with expiry equal to the current time plus five minutes.
C17_Original ==
    last.fx.minted # "-" => last.fx.registered

(***************************************************************************)
(* Properties of the synthesis endpoint and of the tokens (SpecApi).       *)
(***************************************************************************)
IsSynthesis(x) == Route(x.req) = "synthesis"

\* the Authorization header of the exchange is "Bearer " and a credential
HasBearer(x) == x.req.auth.prefix = "Bearer "

\* verifySessionToken accepted the credential when the exchange was handled
TokenAccepted(x) == verifySessionToken(x.req.auth.token, x.fx.verifiedAt)

IsAuthError(x, code) ==
    /\ x.resp.status = 401
    /\ x.resp.etype = "AuthenticationError"
    /\ x.resp.code = code
    /\ ~x.fx.bodyRead
    /\ ~x.fx.providerCalled

\* C4: a synthesis request without a Bearer header is answered 401
\* AuthenticationError / MISSING_TOKEN, one whose Bearer token fails
\* verification 401 AuthenticationError / INVALID_TOKEN, in both cases without
\* reading the body or calling the provider; the provider is called only for a
\* request whose Bearer token verifySessionToken accepts.
C4_AuthBeforeSynthesis ==
    IsSynthesis(last) =>
       /\ ~HasBearer(last) => IsAuthError(last, "MISSING_TOKEN")
       /\ (HasBearer(last) /\ ~TokenAccepted(last)) => IsAuthError(last, "INVALID_TOKEN")
       /\ last.fx.providerCalled => (HasBearer(last) /\ TokenAccepted(last))

\* a token of this server, presented after its expiry, is refused
C4_Witness ==
    /\ IsSynthesis(last)
    /\ HasBearer(last)
    /\ last.req.auth.token.key = SESSION_SECRET
    /\ IsAuthError(last, "INVALID_TOKEN")

\* the credential is a JWT signed with the secret of this process
SignedHere(x) ==
    x.req.auth.token.kind = "jwt" /\ x.req.auth.token.key = SESSION_SECRET

\* checkAuth let the request through
Verified(x) == x.fx.bodyRead

HOUR_MS == 60 * 60 * 1000

\* C5 as stated: verifySessionToken returns true exactly for a token signed with
\* the current secret of which less than one hour has passed since it was issued.
C5_Original ==
    (IsSynthesis(last) /\ HasBearer(last)) =>
       (Verified(last) <=>
          (SignedHere(last) /\ last.fx.verifiedAt - last.fx.issuedAt < HOUR_MS))

\* C5 amended: verifySessionToken returns true exactly for a token signed with
\* the current secret whose issue time and verification time, both cut down to
\* whole seconds, lie less than 3600 seconds apart; a token signed with another
\* secret and a string that is no token are refused at every time.
C5_ValidWithinWholeSeconds ==
    (IsSynthesis(last) /\ HasBearer(last)) =>
       (Verified(last) <=>
          (SignedHere(last)
             /\ (last.fx.verifiedAt \div 1000) - (last.fx.issuedAt \div 1000) < JWT_EXPIRY_S))

\* a token of this server refused although less than an hour has passed
C5_Witness ==
    /\ IsSynthesis(last)
    /\ HasBearer(last)
    /\ SignedHere(last)
    /\ ~Verified(last)
    /\ last.fx.verifiedAt - last.fx.issuedAt < HOUR_MS

\* C8 as stated: a provider error whose message contains, in any case, "too
\* long", "length", "limit" or "exceed" is answered 400 SynthesisError /
\* TEXT_TOO_LONG, every other provider error 500 SynthesisError /
\* SYNTHESIS_FAILED.
C8_Original ==
    (IsSynthesis(last) /\ last.fx.provider.kind = "error") =>
       /\ last.resp.etype = "SynthesisError"
       /\ IF IsLengthError(last.fx.provider.message)
          THEN last.resp.status = 400 /\ last.resp.code = "TEXT_TOO_LONG"
          ELSE last.resp.status = 500 /\ last.resp.code = "SYNTHESIS_FAILED"

\* the JSON body is an object without a text field
NoTextField(x) == x.req.body.json = "object" /\ x.req.body.text = Undefined

IsInvalidInput(x) ==
    /\ x.resp.status = 400
    /\ x.resp.etype = "ValidationError"
    /\ x.resp.code = "INVALID_INPUT"
    /\ ~x.fx.providerCalled

\* C9 as stated: every POST to the synthesis endpoint whose JSON body has no
\* text field is answered 400 ValidationError / INVALID_INPUT without a call of
\* the provider.
C9_Original ==
    (IsSynthesis(last) /\ NoTextField(last)) => IsInvalidInput(last)

\* C9 amended: a POST to the synthesis endpoint that carries a Bearer token
\* verifySessionToken accepts and whose JSON body has no text field is answered
\* 400 ValidationError / INVALID_INPUT without a call of the provider.
C9_MissingTextRejected ==
    (IsSynthesis(last) /\ NoTextField(last) /\ HasBearer(last) /\ TokenAccepted(last))
       => IsInvalidInput(last)

\* an authenticated request with the body {} was answered
C9_Witness ==
    /\ IsSynthesis(last)
    /\ NoTextField(last)
    /\ Verified(last)
    /\ last.resp.status = 400

OnlyWhiteSpace(str) == \A i \in 1..Len(str) : IsWhiteSpace(CharAt(str, i))

\* C10 as stated: validateTtsInput accepts every string that is not empty after
\* trimming, and answers "text cannot be empty" for the empty string and for
\* every string of whitespace only (seen in the response to an authenticated
\* request with that text: the message of the 400, or the call of the provider).
C10_Original ==
    (IsSynthesis(last) /\ Verified(last) /\ last.req.body.json = "object"
        /\ last.req.body.text.t = "string") =>
       IF OnlyWhiteSpace(last.req.body.text.v)
       THEN last.resp.status = 400 /\ last.resp.message = "text cannot be empty"
       ELSE last.fx.providerCalled

\* the chunks one after the other
RECURSIVE Flatten(_)
Flatten(chunks) ==
    IF chunks = <<>> THEN <<>> ELSE Head(chunks) \o Flatten(Tail(chunks))

\* the provider streamed chunks to the end for this exchange
Streamed(x) == IsSynthesis(x) /\ x.fx.provider.kind = "stream"

\* C11: when the provider streams its chunks to the end, whatever they are
\* (empty chunks and no chunk at all included), the response is 200 with
\* content-type application/octet-stream and its body is the chunks one after
\* the other in the order delivered, as long as the chunks together.
C11_BodyIsConcatenation ==
    Streamed(last) =>
       /\ last.resp.status = 200
       /\ last.resp.ctype = "application/octet-stream"
       /\ last.resp.audio = Flatten(last.fx.provider.chunks)
       /\ Len(last.resp.audio) =
             SumOver([i \in DOMAIN last.fx.provider.chunks |->
                         Len(last.fx.provider.chunks[i])])

\* a stream of three chunks, the second empty, answered with three bytes
C11_Witness ==
    /\ Streamed(last)
    /\ Len(last.fx.provider.chunks) = 3
    /\ last.fx.provider.chunks[2] = <<>>
    /\ last.resp.audio = <<1, 2, 3>>

\* C12: when the provider call returns and getStream() yields no stream, the
\* response is 500 SynthesisError / SYNTHESIS_FAILED: the message of the error
\* thrown for it matches none of the words of the length heuristic.
C12_NoStreamIsFailure ==
    (IsSynthesis(last) /\ last.fx.provider.kind = "nostream") =>
       /\ last.resp.status = 500
       /\ last.resp.etype = "SynthesisError"
       /\ last.resp.code = "SYNTHESIS_FAILED"
       /\ last.resp.message = "No audio stream returned from Deepgram"

\* an authenticated request for which the provider returned no stream
C12_Witness ==
    /\ IsSynthesis(last)
    /\ last.fx.providerCalled
    /\ last.fx.provider.kind = "nostream"
    /\ last.resp.status = 500

(***************************************************************************)
(* Properties of the router (SpecRouter).                                  *)
(***************************************************************************)
\* C6 as stated: every response of handleRequest carries the CORS headers.
C6_Original ==
    last.req # NoRequest => last.resp.cors \in {"*", "http://localhost:8080"}

Listed ==
    {<<"GET", "/">>, <<"GET", "/index.html">>, <<"GET", "/api/session">>,
     <<"POST", "/api/text-to-speech">>, <<"GET", "/api/metadata">>}

\* C7 as stated: a request that is not OPTIONS and not one of the five listed
\* method and path pairs is answered 404 with the not-found payload and
\* generates no nonce.
C7_Original ==
    (last.req # NoRequest /\ last.req.method # "OPTIONS"
        /\ <<last.req.method, last.req.path>> \notin Listed) =>
       /\ last.resp.status = 404
       /\ last.resp.shape = "flat"
       /\ last.resp.error = "Not Found"
       /\ last.fx.minted = "-"

\* the exchange was answered with a JSON body reporting a failure
IsJsonFailure(x) == x.resp.status >= 400 /\ x.resp.ctype = "application/json"

\* the body is {error: {type, code, message, details: {originalError}}}
HasErrorShape(resp) ==
    /\ resp.shape = "error"
    /\ resp.etype # "-"
    /\ resp.code # "-"
    /\ resp.message # "-"
    /\ resp.details # "-"

\* C13 as stated: every failure answered in JSON (validation, synthesis,
\* authentication, metadata, not found) has the body
\* {error: {type, code, message, details: {originalError}}}.
C13_Original ==
    IsJsonFailure(last) => HasErrorShape(last.resp)

\* the exchange is a preflight answered as handlePreflight answers it and
\* nothing else was done for it
IsPreflightAnswer(x) ==
    /\ x.resp.status = 204
    /\ x.resp.shape = "empty"
    /\ x.resp.ctype = "-"
    /\ x.resp.cors \in {"*", "http://localhost:8080"}
    /\ x.resp.token = NoToken
    /\ x.fx = NoEffects

\* C14 as stated: every OPTIONS request, on any path, is answered 204 with an
\* empty body and the CORS headers only, and nothing else is done for it (no
\* nonce generated or consumed, no token issued, no provider called).
C14_Original ==
    last.req.method = "OPTIONS" => IsPreflightAnswer(last)

(***************************************************************************)
(* Properties of the whole flow (SpecFlow).                                *)
(***************************************************************************)
\* C18: under nonce enforcement the tokens issued (sent, or being signed for
\* an accepted request) never outnumber the nonces the index renders have
\* generated, none is issued for an absent or empty X-Session-Nonce or for a
\* nonce no render generated, and the provider is called only for a request
\* whose token this server sent at or before the time it verified it, so
\* only after a token was issued and a nonce generated.
C18_TokensWithinMints ==
    REQUIRE_NONCE =>
       /\ SumOver(granted) + BagCardinality(pending) <= SumOver(minted)
       /\ granted[NoHeader] = 0 /\ granted[""] = 0
       /\ \A n \in Nonces : granted[n] > 0 => minted[n] > 0
       /\ \A p \in BagToSet(pending) : p.req.nonce \in Nonces /\ minted[p.req.nonce] > 0
       /\ (IsSynthesis(last) /\ last.fx.providerCalled) =>
             /\ last.fx.issuedAt >= 0
             /\ last.fx.issuedAt <= last.fx.verifiedAt
             /\ SumOver(granted) >= 1
             /\ SumOver(minted) >= 1

\* under enforcement, a synthesis request answered with audio
C18_Witness ==
    /\ REQUIRE_NONCE
    /\ IsSynthesis(last)
    /\ last.fx.providerCalled
    /\ last.resp.shape = "audio"
    /\ SumOver(granted) = 1
    /\ SumOver(minted) = 1

====
